---- MODULE Spec2Model ----
(***************************************************************************)
(* Half-precision GEMM with WMMA fragments (src/kernel/wmma.cu): the host  *)
(* wrappers, the synchronous kernel hgemm_m16n16k16mma2x4_wp4x2 and the    *)
(* double-buffered hgemm_m16n16k16mma2x4_wp4x2_async.                      *)
(*                                                                         *)
(* A block is modelled at warp granularity: the 32 threads of a warp run   *)
(* in lock-step, so one action of warp w performs the statement for all    *)
(* 32 lanes.  Staging buffers are flat arrays of 8-half chunks (one        *)
(* 128-bit transfer each); a chunk holds the global element offset its     *)
(* data came from.  A fragment is described by the offset of the global    *)
(* 16x16 tile it holds, an accumulator by the sequence of (A tile, B tile) *)
(* products added to it.                                                   *)
(***************************************************************************)
EXTENDS Integers, Sequences, FiniteSets, TLC

VARIABLES
  \* ---- build ----
  tpl,         \* the template arguments the kernel is instantiated with
  build,       \* "source" | "built" | "staged"
  writes_A,    \* writes_A[e]: threads whose first staging write starts at &s_A + e
  writes_B,    \* the same for s_B
  g_off,       \* element offsets a thread computed: as the int it holds, and exact
  \* ---- host wrapper ----
  h_pc,        \* position in the wrapper
  variant,     \* "sync" | "async": which wrapper was called
  a, b, c,     \* the tensors: [dtype, shape]
  M, K, N,     \* const int M, K, N (the kernel's arguments after the launch)
  grid,        \* <<grid.x, grid.y>> of the launch, <<0, 0>> before
  dev_blocks,  \* blocks of the grid that have started on the device
  \* ---- one block of the kernel ----
  b_x, b_y,    \* blockIdx.x, blockIdx.y
  pc,          \* pc[w]: position of warp w in the kernel
  idx_k,       \* idx_k[w]: the loop variable of warp w
  s_A, s_B,    \* staging buffers: s_A[slot][chunk] = global offset of the data
  inflight,    \* inflight[w]: the cp.async copy warp w issued and has not waited for
  waited,      \* waited[w][slot]: [k, gen] of the last copy into slot w waited for
  bar_gen,     \* number of __syncthreads() barriers the block has passed
  frag_C,      \* frag_C[w][<<i, j>>]: accumulator, the sequence of products added
  C_mem,       \* store_matrix_sync results: set of [off, ld, val]
  plan,        \* kernel invocations still to run after this one
  C_prev       \* [variant, C_mem] of the previous invocation, or NoRun

hostVars == <<h_pc, variant, a, b, c, M, K, N, grid, dev_blocks>>
kernVars == <<b_x, b_y, pc, idx_k, s_A, s_B, inflight, waited, bar_gen, frag_C,
              C_mem, plan, C_prev>>

tplVars == <<tpl, build, writes_A, writes_B, g_off>>

vars == <<tplVars, hostVars, kernVars>>

------------------------------------------------------------------------------
(* Program constants *)

WARP_SIZE == 32
WMMA_SIZE_M == 16
WMMA_SIZE_N == 16
WMMA_SIZE_K == 16
WARPS_PER_BLOCK_M == 4
WARPS_PER_BLOCK_N == 2
WMMA_PER_WARP_M == 2
WMMA_PER_WARP_N == 4
NUM_THREADS == WARPS_PER_BLOCK_M * WARPS_PER_BLOCK_N * WARP_SIZE
BM == WMMA_SIZE_M * WMMA_PER_WARP_M * WARPS_PER_BLOCK_M
BN == WMMA_SIZE_N * WMMA_PER_WARP_N * WARPS_PER_BLOCK_N
BK == WMMA_SIZE_K

\* The template arguments both wrappers pass, and the built program they call.
Instantiated ==
  [WMMA_SIZE_M |-> WMMA_SIZE_M, WMMA_SIZE_N |-> WMMA_SIZE_N, WMMA_SIZE_K |-> WMMA_SIZE_K,
   WARPS_PER_BLOCK_M |-> WARPS_PER_BLOCK_M, WARPS_PER_BLOCK_N |-> WARPS_PER_BLOCK_N,
   WMMA_PER_WARP_M |-> WMMA_PER_WARP_M, WMMA_PER_WARP_N |-> WMMA_PER_WARP_N]
\* No thread has computed an offset yet.
NoOffsets == [set |-> FALSE]

Built ==
  /\ tpl = Instantiated
  /\ build = "built"
  /\ writes_A = << >> /\ writes_B = << >>
  /\ g_off = NoOffsets

------------------------------------------------------------------------------
(* Host wrappers *)

\* An int64_t tensor size, as two 32-bit words: value = hi * 2^32 + lo.
Size(hi, lo) == [hi |-> hi, lo |-> lo]

\* const int M = a.size(0): the narrowing keeps the low word (all low words
\* used here are below 2^31, so the int is non-negative).
NarrowToInt(sz) == sz.lo

\* (T).size(d) != (S) with S an int: S is widened to int64_t before comparing.
SizeDiffers(sz, n) == sz # Size(0, n)

kHalf == "Half"
kFloat == "Float"

Tensor(dt, sh) == [dtype |-> dt, shape |-> sh]

\* Tensor::size(d): defined for d < dim() only; otherwise it throws.
HasDim(T, d) == d + 1 <= Len(T.shape)
size(T, d) == T.shape[d + 1]

DTypes == {kHalf, kFloat}
RowSizesA == {Size(0, 0), Size(0, 100), Size(0, 128), Size(1, 128)}
RedSizes == {Size(0, 0), Size(0, 8), Size(0, 16)}
ColSizesB == {Size(0, 100), Size(0, 128)}
RowSizesC == {Size(0, 100), Size(0, 128)}
ColSizesC == {Size(0, 128), Size(0, 256)}

\* Shapes of rank 1, 2 and 3 over the given row and column sizes.
Shapes(R, Cs) ==
  {<<r>> : r \in R} \cup (R \X Cs) \cup {<<r, cc, Size(0, 2)>> : r \in R, cc \in Cs}

\* No kernel invocation is in progress while the wrapper runs its checks.
NoRun == [variant |-> "none", C_mem |-> {}]
KernIdle ==
  /\ b_x = 0 /\ b_y = 0
  /\ pc = << >> /\ idx_k = << >>
  /\ s_A = << >> /\ s_B = << >>
  /\ inflight = << >> /\ waited = << >>
  /\ bar_gen = 0
  /\ frag_C = << >>
  /\ C_mem = {}
  /\ plan = << >>
  /\ C_prev = NoRun

HostInit ==
  /\ Built
  /\ KernIdle
  /\ h_pc = "dtype_a"
  /\ variant \in {"sync", "async"}
  /\ a \in {Tensor(dt, sh) : dt \in DTypes, sh \in Shapes(RowSizesA, RedSizes)}
  /\ b \in {Tensor(dt, sh) : dt \in DTypes, sh \in Shapes(RedSizes, ColSizesB)}
  /\ c \in {Tensor(dt, sh) : dt \in DTypes, sh \in Shapes(RowSizesC, ColSizesC)}
  /\ M = 0 /\ K = 0 /\ N = 0
  /\ grid = <<0, 0>>
  /\ dev_blocks = {}

\* CHECK_TORCH_TENSOR_DTYPE(T, torch::kHalf) for a, b, c in turn.
CheckDtype(at, T, next) ==
  /\ h_pc = at
  /\ h_pc' = IF T.dtype # kHalf THEN "error_dtype" ELSE next
  /\ UNCHANGED <<variant, a, b, c, M, K, N, grid, dev_blocks>>
  /\ UNCHANGED <<kernVars, tplVars>>

CheckDtypeA == CheckDtype("dtype_a", a, "dtype_b")
CheckDtypeB == CheckDtype("dtype_b", b, "dtype_c")
CheckDtypeC == CheckDtype("dtype_c", c, "dims")

\* const int M = a.size(0); const int K = a.size(1); const int N = b.size(1);
ReadDims ==
  /\ h_pc = "dims"
  /\ IF HasDim(a, 0) /\ HasDim(a, 1) /\ HasDim(b, 1)
       THEN /\ M' = NarrowToInt(size(a, 0))
            /\ K' = NarrowToInt(size(a, 1))
            /\ N' = NarrowToInt(size(b, 1))
            /\ h_pc' = "div"
       ELSE /\ h_pc' = "error_index"
            /\ UNCHANGED <<M, K, N>>
  /\ UNCHANGED <<variant, a, b, c, grid, dev_blocks>>
  /\ UNCHANGED <<kernVars, tplVars>>

\* if (M % 128 != 0 || N % 128 != 0 || K % 16 != 0) throw
DivisibilityOk(m, n, k) == ~(m % 128 # 0 \/ n % 128 # 0 \/ k % 16 # 0)

CheckDiv ==
  /\ h_pc = "div"
  /\ h_pc' = IF DivisibilityOk(M, N, K) THEN "shape_a" ELSE "error_div"
  /\ UNCHANGED <<variant, a, b, c, M, K, N, grid, dev_blocks>>
  /\ UNCHANGED <<kernVars, tplVars>>

\* CHECK_TORCH_TENSOR_SHAPE(T, S0, S1): only size(0) and size(1) are compared.
ShapeMismatch(T, S0, S1) == SizeDiffers(size(T, 0), S0) \/ SizeDiffers(size(T, 1), S1)

CheckShape(at, T, S0, S1, next) ==
  /\ h_pc = at
  /\ h_pc' = IF ~(HasDim(T, 0) /\ HasDim(T, 1)) THEN "error_index"
             ELSE IF ShapeMismatch(T, S0, S1) THEN "error_shape"
             ELSE next
  /\ UNCHANGED <<variant, a, b, c, M, K, N, grid, dev_blocks>>
  /\ UNCHANGED <<kernVars, tplVars>>

CheckShapeA == CheckShape("shape_a", a, M, K, "shape_b")
CheckShapeB == CheckShape("shape_b", b, K, N, "shape_c")
CheckShapeC == CheckShape("shape_c", c, M, N, "launch")

\* dim3 grid(N / (16*4*2), M / (16*2*4)); kernel<<<grid, block>>>(...)
GridDim(m, n) ==
  << n \div (WMMA_SIZE_N * WMMA_PER_WARP_N * WARPS_PER_BLOCK_N),
     m \div (WMMA_SIZE_M * WMMA_PER_WARP_M * WARPS_PER_BLOCK_M) >>

Launch ==
  /\ h_pc = "launch"
  /\ grid' = GridDim(M, N)
  /\ h_pc' = "launched"
  /\ UNCHANGED <<variant, a, b, c, M, K, N, dev_blocks>>
  /\ UNCHANGED <<kernVars, tplVars>>

\* The blocks <<blockIdx.x, blockIdx.y>> of a launched grid.
Blocks(g) == (0 .. g[1] - 1) \X (0 .. g[2] - 1)

\* Device side: a block of the launched grid enters the kernel.
BlockStart ==
  /\ h_pc = "launched"
  /\ \E blk \in Blocks(grid) \ dev_blocks : dev_blocks' = dev_blocks \cup {blk}
  /\ UNCHANGED <<h_pc, variant, a, b, c, M, K, N, grid>>
  /\ UNCHANGED <<kernVars, tplVars>>

------------------------------------------------------------------------------
(* Kernel geometry: the offsets each thread computes.  blockIdx and the    *)
(* kernel arguments are parameters (by, bx, Kd, Nd) so that the per-warp  *)
(* tables below are constants of the model.                               *)

Warps == 0 .. (NUM_THREADS \div WARP_SIZE) - 1
FragIdx == (0 .. WMMA_PER_WARP_M - 1) \X (0 .. WMMA_PER_WARP_N - 1)

\* Thread tid of warp w, lane l: tid = threadIdx.y * blockDim.x + threadIdx.x,
\* warp_id = tid / WARP_SIZE.
TidOf(w, l) == w * WARP_SIZE + l
warp_m(w) == w \div 2
warp_n(w) == w % 2

load_s_A_m(tid) == tid \div 2
load_s_A_k(tid) == IF tid % 2 = 0 THEN 0 ELSE 8
\* (A row of B per warp instead of per 16 threads.)
load_s_B_k_per_warp(tid) == tid \div WARP_SIZE
load_s_B_k(tid) == tid \div 16
load_s_B_n(tid) == (tid % 16) * 8
load_g_A_m(by, tid) == by * BM + load_s_A_m(tid)
load_g_B_n(bx, tid) == bx * BN + load_s_B_n(tid)
load_g_A_k(tid, k) == k * WMMA_SIZE_K + load_s_A_k(tid)
load_g_A_off(by, Kd, tid, k) == load_g_A_m(by, tid) * Kd + load_g_A_k(tid, k)
load_g_B_k(tid, k) == k * WMMA_SIZE_K + load_s_B_k(tid)
load_g_B_off(bx, Nd, tid, k) == load_g_B_k(tid, k) * Nd + load_g_B_n(bx, tid)

store_g_C_m(by, w, i) == by * BM + warp_m(w) * (WMMA_SIZE_M * WMMA_PER_WARP_M) + i * WMMA_SIZE_M
\* (A write-back whose warp column stride is the warp tile's row count.)
store_g_C_n_row_stride(bx, w, j) ==
  bx * BN + warp_n(w) * (WMMA_SIZE_N * WMMA_PER_WARP_M) + j * WMMA_SIZE_N
store_g_C_n(bx, w, j) == bx * BN + warp_n(w) * (WMMA_SIZE_N * WMMA_PER_WARP_N) + j * WMMA_SIZE_N

\* x & 1 on a two's complement int is the mathematical x mod 2 (also for x = -1).
BitAnd1(x) == x % 2
curr_buf(k) == BitAnd1(k - 1)
\* (A prefetch aimed at the slot of the step before.)
next_buf_of_prev(k) == BitAnd1(k - 1)
next_buf(k) == BitAnd1(k)
\* (A drain slot taken from the number of steps, not from the last step.)
last_buf_of_count(Kd) == BitAnd1(Kd \div WMMA_SIZE_K)
last_buf(Kd) == BitAnd1((Kd \div WMMA_SIZE_K) - 1)

\* idx_k < (K / WMMA_SIZE_K)
LoopCond(k, Kd) == k < (Kd \div WMMA_SIZE_K)

------------------------------------------------------------------------------
(* Launches explored: the wrapper's accepted arguments and the block run *)

MaxKSteps == 3
KernelMN == {<<256, 384>>}
KernelK == {s * WMMA_SIZE_K : s \in 0 .. MaxKSteps}
KernelBlocks(g) == {<<g[1] - 1, g[2] - 1>>}

------------------------------------------------------------------------------
(* Memory *)

\* What a chunk holds when it was never written, and what a read outside the
\* global buffer or of a chunk with a copy in flight returns: not data.
GarbageVals == {-1, -2}
OutOfBounds == -3
Racy == -4
Mixed == -5
IsData(v) == v >= 0

\* The async wrapper instantiates the kernel with PAD = 8; the synchronous
\* kernel declares s_A[BM][BK], s_B[BK][BN].
PadOf(v) == IF v = "async" THEN 8 ELSE 0
Variants == {"sync", "async"}

\* The kernels: the two the wrappers launch, and the asynchronous template
\* with its default argument PAD = 0.
Kernels == Variants \cup {"async_pad0"}
IsAsync(v) == v \in {"async", "async_pad0"}
SlotsOf(v) == IF IsAsync(v) THEN {0, 1} ELSE {0}

\* One chunk is 8 halves (128 bits).  &s_A[slot][m][k] and &s_B[slot][k][n] as
\* element offsets into the slot, and the chunk that holds them.
ElemA(pad, m, k) == m * (BK + pad) + k
ElemB(pad, k, n) == k * (BN + pad) + n
ChunkOf(elem) == elem \div 8
ChunksA(pad) == 0 .. ChunkOf(BM * (BK + pad)) - 1
ChunksB(pad) == 0 .. ChunkOf(BK * (BN + pad)) - 1

\* LDST128BITS(A[off]) / cp.async of 16 bytes from &A[off]: the 8 halves at
\* off .. off+7 of a buffer of len halves.
GlobalRead(off, len) == IF 0 <= off /\ off + 8 <= len THEN off ELSE OutOfBounds

\* The transfers of the 32 lanes of warp w for slice k, as the function
\* destination chunk -> source offset (of two lanes with the same destination,
\* the later one's data stays).
LaneDstA(pad, w, l) ==
  ChunkOf(ElemA(pad, load_s_A_m(TidOf(w, l)), load_s_A_k(TidOf(w, l))))
LaneDstB(pad, w, l) ==
  ChunkOf(ElemB(pad, load_s_B_k(TidOf(w, l)), load_s_B_n(TidOf(w, l))))
LastLaneA(pad, w, ch) ==
  CHOOSE l \in 0 .. WARP_SIZE - 1 :
    LaneDstA(pad, w, l) = ch /\ \A l2 \in l + 1 .. WARP_SIZE - 1 : LaneDstA(pad, w, l2) # ch
LastLaneB(pad, w, ch) ==
  CHOOSE l \in 0 .. WARP_SIZE - 1 :
    LaneDstB(pad, w, l) = ch /\ \A l2 \in l + 1 .. WARP_SIZE - 1 : LaneDstB(pad, w, l2) # ch
WritersA ==
  [v \in Kernels, w \in Warps |->
     [ch \in {LaneDstA(PadOf(v), w, l) : l \in 0 .. WARP_SIZE - 1} |-> LastLaneA(PadOf(v), w, ch)]]
WritersB ==
  [v \in Kernels, w \in Warps |->
     [ch \in {LaneDstB(PadOf(v), w, l) : l \in 0 .. WARP_SIZE - 1} |-> LastLaneB(PadOf(v), w, ch)]]

TransfersA(v, by, Md, Kd, w, k) ==
  [ch \in DOMAIN WritersA[v, w] |->
     GlobalRead(load_g_A_off(by, Kd, TidOf(w, WritersA[v, w][ch]), k), Md * Kd)]

TransfersB(v, bx, Kd, Nd, w, k) ==
  [ch \in DOMAIN WritersB[v, w] |->
     GlobalRead(load_g_B_off(bx, Nd, TidOf(w, WritersB[v, w][ch]), k), Kd * Nd)]

\* The transfers of every warp, for every launch explored.
KernelM == {mn[1] : mn \in KernelMN}
KernelN == {mn[2] : mn \in KernelMN}
BlockXs == UNION {{blk[1] : blk \in KernelBlocks(GridDim(mn[1], mn[2]))} : mn \in KernelMN}
BlockYs == UNION {{blk[2] : blk \in KernelBlocks(GridDim(mn[1], mn[2]))} : mn \in KernelMN}
StagedA ==
  [v \in Kernels, by \in BlockYs, Md \in KernelM, Kd \in KernelK, w \in Warps, k \in 0 .. MaxKSteps |->
     TransfersA(v, by, Md, Kd, w, k)]
StagedB ==
  [v \in Kernels, bx \in BlockXs, Kd \in KernelK, Nd \in KernelN, w \in Warps, k \in 0 .. MaxKSteps |->
     TransfersB(v, bx, Kd, Nd, w, k)]

\* The staging writes of warp w for slice k, applied to one slot.
StageA(bufA, w, k) == StagedA[variant, b_y, M, K, w, k] @@ bufA
StageB(bufB, w, k) == StagedB[variant, b_x, K, N, w, k] @@ bufB

NoCopy == [slot |-> -1, k |-> -1]

\* wmma::load_matrix_sync(frag, ptr, ldm) reads the 16x16 halves at
\* ptr + r*ldm + cc.  first is ptr as an element offset into the slot.  In a
\* row-major 16x16 tile of a global matrix of leading dimension g_ld, the chunk
\* at row r, half h lies r*g_ld + 8*h after the tile's first element.
TileRel(first, ldm, g_ld) ==
  [ch \in {ChunkOf(first + r * ldm + 8 * h) : r \in 0 .. 15, h \in 0 .. 1} |->
     LET rh == CHOOSE x \in (0 .. 15) \X (0 .. 1) : ChunkOf(first + x[1] * ldm + 8 * x[2]) = ch
     IN rh[1] * g_ld + 8 * rh[2]]

FirstA(pad, w, i) == ElemA(pad, warp_m(w) * (WMMA_PER_WARP_M * WMMA_SIZE_M) + i * WMMA_SIZE_M, 0)
FirstB(pad, w, j) == ElemB(pad, 0, warp_n(w) * (WMMA_PER_WARP_N * WMMA_SIZE_N) + j * WMMA_SIZE_N)

FragTilesA ==
  [v \in Kernels, Kd \in KernelK, w \in Warps, i \in 0 .. WMMA_PER_WARP_M - 1 |->
     TileRel(FirstA(PadOf(v), w, i), BK + PadOf(v), Kd)]
FragTilesB ==
  [v \in Kernels, Nd \in KernelN, w \in Warps, j \in 0 .. WMMA_PER_WARP_N - 1 |->
     TileRel(FirstB(PadOf(v), w, j), BN + PadOf(v), Nd)]

\* The fragment a load_matrix_sync yields: the global offset of the tile the
\* chunks hold, when they hold one tile; what they hold, when none is data.
TileOf(buf, first, rel) ==
  LET base == buf[ChunkOf(first)]
  IN IF \A ch \in DOMAIN rel : buf[ch] = (IF IsData(base) THEN base + rel[ch] ELSE base)
       THEN base
       ELSE Mixed

\* Some warp has a copy in flight whose destination lies in the chunks cs of
\* slot s.
CopyInFlightA(s, cs) ==
  \E x \in Warps :
     /\ inflight[x].slot = s
     /\ DOMAIN StagedA[variant, b_y, M, K, x, inflight[x].k] \cap cs # {}
CopyInFlightB(s, cs) ==
  \E x \in Warps :
     /\ inflight[x].slot = s
     /\ DOMAIN StagedB[variant, b_x, K, N, x, inflight[x].k] \cap cs # {}

load_frag_A(w, slot, i) ==
  LET rel == FragTilesA[variant, K, w, i]
  IN IF CopyInFlightA(slot, DOMAIN rel)
       THEN Racy
       ELSE TileOf(s_A[slot], FirstA(PadOf(variant), w, i), rel)

load_frag_B(w, slot, j) ==
  LET rel == FragTilesB[variant, N, w, j]
  IN IF CopyInFlightB(slot, DOMAIN rel)
       THEN Racy
       ELSE TileOf(s_B[slot], FirstB(PadOf(variant), w, j), rel)

\* wmma::fill_fragment(frag_C[i][j], 0): the empty sum.
ZeroFrags == [ij \in FragIdx |-> << >>]

\* The accumulators as declared, before fill_fragment: whatever the registers
\* hold, which is not a sum of products of A and B.
UnsetFrags(g) == [ij \in FragIdx |-> << <<g, g>> >>]

\* The load_matrix_sync loops and the mma_sync loop of one reduction step:
\* frag_C[i][j] += frag_A[i] * frag_B[j].  (frag_A, frag_B: each fragment is
\* loaded once, as the pairs <<index, fragment>>.)
mma_step(w, slot) ==
  LET frag_A == {<<i, load_frag_A(w, slot, i)>> : i \in 0 .. WMMA_PER_WARP_M - 1}
      frag_B == {<<j, load_frag_B(w, slot, j)>> : j \in 0 .. WMMA_PER_WARP_N - 1}
      At(frags, i) == (CHOOSE p \in frags : p[1] = i)[2]
  IN [ij \in FragIdx |-> Append(frag_C[w][ij], <<At(frag_A, ij[1]), At(frag_B, ij[2])>>)]

\* wmma::store_matrix_sync(C + store_g_C_m * N + store_g_C_n, frag_C[i][j], N, ...)
\* (by: the block, warp and fragment whose store it is.)
Stores(w, frags) ==
  {[off |-> store_g_C_m(b_y, w, ij[1]) * N + store_g_C_n(b_x, w, ij[2]), ld |-> N,
    val |-> frags[ij], by |-> <<b_x, b_y, w, ij>>] : ij \in FragIdx}

------------------------------------------------------------------------------
(* One block of a kernel invocation *)

\* __shared__ half s_A[..][BM][BK + PAD], s_B[..][BK][BN + PAD]: not initialised.
SharedA(v, g) == [s \in SlotsOf(v) |-> [ch \in ChunksA(PadOf(v)) |-> g]]
SharedB(v, g) == [s \in SlotsOf(v) |-> [ch \in ChunksB(PadOf(v)) |-> g]]
NoWaits(v) == [w \in Warps |-> [s \in SlotsOf(v) |-> [k |-> -1, gen |-> -1]]]

BlockAt(p, g, acc) ==
  /\ pc = [w \in Warps |-> p]
  /\ idx_k = [w \in Warps |-> 0]
  /\ s_A = SharedA(variant, g)
  /\ s_B = SharedB(variant, g)
  /\ inflight = [w \in Warps |-> NoCopy]
  /\ waited = NoWaits(variant)
  /\ bar_gen = 0
  /\ frag_C = [w \in Warps |-> acc]
  /\ C_mem = {}

BlockReset(g) == BlockAt("entry", g, UnsetFrags(g))

\* The state right after the wrapper's launch, when block <<b_x, b_y>> starts:
\* runs are the invocations to make, Ks the values of K explored.
KernStart(runs, Ks) ==
  /\ Built
  /\ h_pc = "launched"
  /\ variant = Head(runs)
  /\ plan = Tail(runs)
  /\ C_prev = NoRun
  /\ \E mn \in KernelMN : M = mn[1] /\ N = mn[2]
  /\ K \in Ks
  /\ DivisibilityOk(M, N, K)
  /\ a = Tensor(kHalf, <<Size(0, M), Size(0, K)>>)
  /\ b = Tensor(kHalf, <<Size(0, K), Size(0, N)>>)
  /\ c = Tensor(kHalf, <<Size(0, M), Size(0, N)>>)
  /\ grid = GridDim(M, N)
  /\ \E blk \in KernelBlocks(grid) : b_x = blk[1] /\ b_y = blk[2]
  /\ dev_blocks = {<<b_x, b_y>>}
  /\ BlockReset(-1)

KernInit(runs) == KernStart(runs, KernelK)

\* Kernel entry: fill_fragment for every frag_C[i][j]; then the synchronous
\* kernel makes its first loop test, and the asynchronous kernel runs its
\* prologue up to the barrier: the two CP_ASYNC_CG of slice 0 into slot 0,
\* CP_ASYNC_COMMIT_GROUP() and CP_ASYNC_WAIT_GROUP(0), at whose return the
\* warp's copies have landed.  (No thread reads shared memory before the
\* prologue's barrier.)
Entry(w) ==
  /\ pc[w] = "entry"
  /\ pc' = [pc EXCEPT ![w] = IF variant # "sync" THEN "pro_bar"
                              ELSE IF LoopCond(0, K) THEN "load_g" ELSE "store"]
  /\ frag_C' = [frag_C EXCEPT ![w] = ZeroFrags]
  /\ IF variant = "sync"
       THEN UNCHANGED <<s_A, s_B, waited>>
       ELSE /\ s_A' = [s_A EXCEPT ![0] = StageA(s_A[0], w, 0)]
            /\ s_B' = [s_B EXCEPT ![0] = StageB(s_B[0], w, 0)]
            /\ waited' = [waited EXCEPT ![w][0] = [k |-> 0, gen |-> bar_gen]]
  /\ UNCHANGED <<tplVars, hostVars, b_x, b_y, idx_k, inflight, bar_gen, C_mem, plan, C_prev>>

\* ---- synchronous kernel ----

\* LDST128BITS(s_A[..]) = LDST128BITS(A[..]); same for B; then __syncthreads().
SyncLoad(w) ==
  /\ variant = "sync" /\ pc[w] = "load_g"
  /\ pc' = [pc EXCEPT ![w] = "bar1"]
  /\ s_A' = [s_A EXCEPT ![0] = StageA(s_A[0], w, idx_k[w])]
  /\ s_B' = [s_B EXCEPT ![0] = StageB(s_B[0], w, idx_k[w])]
  /\ UNCHANGED <<tplVars, hostVars, b_x, b_y, idx_k, inflight, waited, bar_gen, frag_C, C_mem, plan, C_prev>>

\* (The reduction step without its second barrier: after its mma_sync loop the
\* warp goes on to the next loop test.)
SyncComputeNoBarrier(w) ==
  /\ variant = "sync" /\ pc[w] = "frag"
  /\ pc' = [pc EXCEPT ![w] = IF LoopCond(idx_k[w] + 1, K) THEN "load_g" ELSE "store"]
  /\ frag_C' = [frag_C EXCEPT ![w] = mma_step(w, 0)]
  /\ idx_k' = [idx_k EXCEPT ![w] = idx_k[w] + 1]
  /\ UNCHANGED <<tplVars, hostVars, b_x, b_y, s_A, s_B, inflight, waited, bar_gen, C_mem, plan, C_prev>>

\* (The second barrier of a step placed under a condition that warp 0 does
\* not meet: warp 0 goes on to the next loop test without arriving.)
SyncComputeWarp0SkipsBarrier(w) ==
  /\ variant = "sync" /\ pc[w] = "frag"
  /\ pc' = [pc EXCEPT ![w] = IF w # 0 THEN "bar2"
                              ELSE IF LoopCond(idx_k[w] + 1, K) THEN "load_g" ELSE "store"]
  /\ frag_C' = [frag_C EXCEPT ![w] = mma_step(w, 0)]
  /\ idx_k' = [idx_k EXCEPT ![w] = IF w # 0 THEN idx_k[w] ELSE idx_k[w] + 1]
  /\ UNCHANGED <<tplVars, hostVars, b_x, b_y, s_A, s_B, inflight, waited, bar_gen, C_mem, plan, C_prev>>

\* load_matrix_sync loops, mma_sync loop; then __syncthreads().
SyncCompute(w) ==
  /\ variant = "sync" /\ pc[w] = "frag"
  /\ pc' = [pc EXCEPT ![w] = "bar2"]
  /\ frag_C' = [frag_C EXCEPT ![w] = mma_step(w, 0)]
  /\ UNCHANGED <<tplVars, hostVars, b_x, b_y, idx_k, s_A, s_B, inflight, waited, bar_gen, C_mem, plan, C_prev>>

\* ---- asynchronous kernel ----

\* The two CP_ASYNC_CG of iteration idx_k: slice idx_k into next_buf.
Issue(w) ==
  /\ IsAsync(variant) /\ pc[w] = "issue"
  /\ pc' = [pc EXCEPT ![w] = "compute"]
  /\ inflight' = [inflight EXCEPT ![w] = [slot |-> next_buf(idx_k[w]), k |-> idx_k[w]]]
  /\ UNCHANGED <<tplVars, hostVars, b_x, b_y, idx_k, s_A, s_B, waited, bar_gen, frag_C, C_mem, plan, C_prev>>

\* (The rest of an iteration with CP_ASYNC_WAIT_GROUP(1): the wait returns
\* with the group just committed still outstanding.)
ComputeWaitGroup1(w) ==
  /\ IsAsync(variant) /\ pc[w] = "compute"
  /\ pc' = [pc EXCEPT ![w] = "loop_bar"]
  /\ frag_C' = [frag_C EXCEPT ![w] = mma_step(w, curr_buf(idx_k[w]))]
  /\ UNCHANGED <<tplVars, hostVars, b_x, b_y, idx_k, s_A, s_B, inflight, waited, bar_gen, C_mem, plan, C_prev>>

\* The rest of iteration idx_k: load_matrix_sync from curr_buf and mma_sync
\* while the copy is in flight, then CP_ASYNC_COMMIT_GROUP() and
\* CP_ASYNC_WAIT_GROUP(0), at whose return the warp's copies have landed;
\* then __syncthreads().  (The fragment loads read shared memory before the
\* wait returns; nothing else of the warp is visible to the block in between.)
Compute(w) ==
  /\ IsAsync(variant) /\ pc[w] = "compute"
  /\ pc' = [pc EXCEPT ![w] = "loop_bar"]
  /\ frag_C' = [frag_C EXCEPT ![w] = mma_step(w, curr_buf(idx_k[w]))]
  /\ LET s == inflight[w].slot
         k == inflight[w].k
     IN /\ s_A' = [s_A EXCEPT ![s] = StageA(s_A[s], w, k)]
        /\ s_B' = [s_B EXCEPT ![s] = StageB(s_B[s], w, k)]
        /\ waited' = [waited EXCEPT ![w][s] = [k |-> k, gen |-> bar_gen]]
  /\ inflight' = [inflight EXCEPT ![w] = NoCopy]
  /\ UNCHANGED <<tplVars, hostVars, b_x, b_y, idx_k, bar_gen, C_mem, plan, C_prev>>

\* (A drain pass that starts from freshly zeroed accumulators.)
DrainFreshAccumulator(w) ==
  /\ IsAsync(variant) /\ pc[w] = "drain"
  /\ pc' = [pc EXCEPT ![w] = "done"]
  /\ LET sum == mma_step(w, last_buf(K))
     IN frag_C' = [frag_C EXCEPT ![w] = [ij \in FragIdx |-> << sum[ij][Len(sum[ij])] >>]]
  /\ C_mem' = C_mem \cup Stores(w, frag_C'[w])
  /\ UNCHANGED <<tplVars, hostVars, b_x, b_y, idx_k, s_A, s_B, inflight, waited, bar_gen, plan, C_prev>>

\* The drain pass, load_matrix_sync from last_buf and mma_sync, and the
\* write-back loops that follow it without a barrier.
Drain(w) ==
  /\ IsAsync(variant) /\ pc[w] = "drain"
  /\ pc' = [pc EXCEPT ![w] = "done"]
  /\ frag_C' = [frag_C EXCEPT ![w] = mma_step(w, last_buf(K))]
  /\ C_mem' = C_mem \cup Stores(w, frag_C'[w])
  /\ UNCHANGED <<tplVars, hostVars, b_x, b_y, idx_k, s_A, s_B, inflight, waited, bar_gen, plan, C_prev>>

\* ---- both kernels ----

BarrierPcs == {"bar1", "bar2", "pro_bar", "loop_bar"}

\* Where a warp continues after the barrier it waits at, and its idx_k there.
AfterBarrier(p, k) ==
  CASE p = "bar1" -> [pc |-> "frag", k |-> k]
    [] p = "bar2" -> [pc |-> IF LoopCond(k + 1, K) THEN "load_g" ELSE "store", k |-> k + 1]
    [] p = "pro_bar" -> [pc |-> IF LoopCond(1, K) THEN "issue" ELSE "drain", k |-> 1]
    [] p = "loop_bar" -> [pc |-> IF LoopCond(k + 1, K) THEN "issue" ELSE "drain", k |-> k + 1]

\* __syncthreads(): every warp of the block has arrived; all continue.
SyncThreads ==
  /\ \A w \in Warps : pc[w] \in BarrierPcs
  /\ pc' = [w \in Warps |-> AfterBarrier(pc[w], idx_k[w]).pc]
  /\ idx_k' = [w \in Warps |-> AfterBarrier(pc[w], idx_k[w]).k]
  /\ bar_gen' = bar_gen + 1
  /\ UNCHANGED <<tplVars, hostVars, b_x, b_y, s_A, s_B, inflight, waited, frag_C, C_mem, plan, C_prev>>

\* The write-back loops of the synchronous kernel: one store_matrix_sync per
\* fragment.
WriteBack(w) ==
  /\ variant = "sync" /\ pc[w] = "store"
  /\ pc' = [pc EXCEPT ![w] = "done"]
  /\ C_mem' = C_mem \cup Stores(w, frag_C[w])
  /\ UNCHANGED <<tplVars, hostVars, b_x, b_y, idx_k, s_A, s_B, inflight, waited, bar_gen, frag_C, plan, C_prev>>

BlockDone == \A w \in Warps : pc[w] = "done"

\* The wrapper is called again with the same tensors: the next invocation of
\* the plan starts, shared memory holding whatever it holds.
Relaunch ==
  /\ BlockDone /\ plan # << >>
  /\ C_prev' = [variant |-> variant, C_mem |-> C_mem]
  /\ variant' = Head(plan)
  /\ plan' = Tail(plan)
  /\ pc' = [w \in Warps |-> "entry"]
  /\ idx_k' = [w \in Warps |-> 0]
  /\ \E g \in GarbageVals :
        /\ s_A' = SharedA(Head(plan), g)
        /\ s_B' = SharedB(Head(plan), g)
        /\ frag_C' = [w \in Warps |-> UnsetFrags(g)]
  /\ inflight' = [w \in Warps |-> NoCopy]
  /\ waited' = NoWaits(Head(plan))
  /\ bar_gen' = 0
  /\ C_mem' = {}
  /\ UNCHANGED <<tplVars, h_pc, a, b, c, M, K, N, grid, dev_blocks, b_x, b_y>>

SyncNext ==
  \/ \E w \in Warps : Entry(w)
  \/ \E w \in Warps : SyncLoad(w)
  \/ \E w \in Warps : SyncCompute(w)
  \/ SyncThreads
  \/ \E w \in Warps : WriteBack(w)

AsyncNext ==
  \/ \E w \in Warps : Entry(w)
  \/ \E w \in Warps : Issue(w)
  \/ \E w \in Warps : Compute(w)
  \/ \E w \in Warps : Drain(w)
  \/ SyncThreads

SpecSync == KernInit(<<"sync">>) /\ [][SyncNext]_vars
SpecAsync == KernInit(<<"async">>) /\ [][AsyncNext]_vars

\* Two invocations on the same tensors, one after the other: the synchronous
\* kernel and then the asynchronous one; the asynchronous kernel twice.
PairNext ==
  \/ \E w \in Warps : Entry(w)
  \/ \E w \in Warps : SyncLoad(w)
  \/ \E w \in Warps : SyncCompute(w)
  \/ \E w \in Warps : WriteBack(w)
  \/ \E w \in Warps : Issue(w)
  \/ \E w \in Warps : Compute(w)
  \/ \E w \in Warps : Drain(w)
  \/ SyncThreads
  \/ Relaunch

RepeatNext == AsyncNext \/ Relaunch

SpecSyncAsync == KernInit(<<"sync", "async">>) /\ [][PairNext]_vars
SpecRepeat == KernInit(<<"async", "async">>) /\ [][RepeatNext]_vars

\* One invocation of either kernel under a fair schedule: the device keeps
\* running the block's warps as long as one of them can make a step (a
\* resident warp that is not waiting at a barrier is eventually issued).
MaxFairSteps == 2
FairK == {st * WMMA_SIZE_K : st \in 0 .. MaxFairSteps}
FairInit == \E v \in Variants : KernStart(<<v>>, FairK)
FairNext ==
  \/ SyncThreads
  \/ \E w \in Warps : Issue(w)
  \/ \E w \in Warps : Entry(w)
  \/ \E w \in Warps : WriteBack(w)
  \/ \E w \in Warps : SyncLoad(w)
  \/ \E w \in Warps : SyncCompute(w)
  \/ \E w \in Warps : Compute(w)
  \/ \E w \in Warps : Drain(w)
SpecFair == FairInit /\ [][FairNext]_vars /\ WF_vars(FairNext)

\* The asynchronous template with PAD = 0, then with the wrapper's PAD = 8, on
\* the same tensors.
SpecPad == KernInit(<<"async_pad0", "async">>) /\ [][RepeatNext]_vars

------------------------------------------------------------------------------
(* The write-back of a whole grid.  With K = 0 the synchronous kernel's     *)
(* warps go from kernel entry straight to the write-back loops; the blocks  *)
(* are taken in the order of their index, a block's stores depending on     *)
(* nothing another block does.                                              *)

MaxGridX == 2
MaxGridY == 3
StoreMN == {<<gy * BM, gx * BN>> : gy \in 1 .. MaxGridY, gx \in 1 .. MaxGridX}

StoreInit ==
  /\ Built
  /\ h_pc = "launched"
  /\ variant = "sync"
  /\ plan = << >>
  /\ C_prev = NoRun
  /\ \E mn \in StoreMN : M = mn[1] /\ N = mn[2]
  /\ K = 0
  /\ DivisibilityOk(M, N, K)
  /\ a = Tensor(kHalf, <<Size(0, M), Size(0, K)>>)
  /\ b = Tensor(kHalf, <<Size(0, K), Size(0, N)>>)
  /\ c = Tensor(kHalf, <<Size(0, M), Size(0, N)>>)
  /\ grid = GridDim(M, N)
  /\ b_x = 0 /\ b_y = 0
  /\ dev_blocks = {<<0, 0>>}
  /\ BlockAt("store", -1, ZeroFrags)

\* The next block of the grid, in row-major order of <<blockIdx.y, blockIdx.x>>,
\* reaches its write-back.
NextBlock ==
  /\ h_pc = "launched" /\ BlockDone
  /\ LET rest == Blocks(grid) \ dev_blocks
         blk == CHOOSE x \in rest :
                  \A y \in rest : x[2] < y[2] \/ (x[2] = y[2] /\ x[1] <= y[1])
     IN /\ rest # {}
        /\ b_x' = blk[1] /\ b_y' = blk[2]
        /\ dev_blocks' = dev_blocks \cup {blk}
  /\ pc' = [w \in Warps |-> "store"]
  /\ UNCHANGED <<tplVars, h_pc, variant, a, b, c, M, K, N, grid>>
  /\ UNCHANGED <<idx_k, s_A, s_B, inflight, waited, bar_gen, frag_C, C_mem, plan, C_prev>>

StoreNext ==
  \/ \E w \in Warps : WriteBack(w)
  \/ NextBlock

SpecStores == StoreInit /\ [][StoreNext]_vars

------------------------------------------------------------------------------

HostNext ==
  \/ CheckDtypeA \/ CheckDtypeB \/ CheckDtypeC
  \/ ReadDims \/ CheckDiv
  \/ CheckShapeA \/ CheckShapeB \/ CheckShapeC
  \/ Launch \/ BlockStart

SpecHost == HostInit /\ [][HostNext]_vars

------------------------------------------------------------------------------
(* The offsets of large launches.  A 32-bit int product does not fit the     *)
(* model's integers, so x * y + z is computed in two 16-bit limbs:           *)
(* value = hi * 2^16 + lo.                                                   *)

Limb == 2 ^ 16

\* The mathematical value of x * y + z, for 0 <= x, z < 2^17 and 0 <= y <= 2^16.
WideMulAdd(x, y, z) ==
  LET yh == y \div 1024
      yl == y % 1024
      t == x * yh
      low == (t % 64) * 1024 + x * yl + z
  IN [hi |-> (t \div 64) + (low \div Limb), lo |-> low % Limb]

\* The value reduced to a 32-bit two's complement int: hi in -2^15 .. 2^15 - 1.
WrapInt32(wv) == [hi |-> ((wv.hi + Limb \div 2) % Limb) - Limb \div 2, lo |-> wv.lo]

\* int off = x * y + z with int operands.  When the value does not fit an int
\* the signed overflow is undefined behaviour: the build either wraps it
\* modulo 2^32 (32-bit multiply-add) or forms the address in 64 bits (a wide
\* multiply-add, whose result is the mathematical value).
IntMulAdd(x, y, z) == {WrapInt32(WideMulAdd(x, y, z)), WideMulAdd(x, y, z)}

LargeRows == {Size(0, 128), Size(0, 32768), Size(0, 65536), Size(1, 128)}
LargeRed == {Size(0, 16), Size(0, 65536)}
LargeCols == {Size(0, 128), Size(0, 65536)}

OffsetInit ==
  /\ Built
  /\ KernIdle
  /\ h_pc = "dtype_a"
  /\ variant \in Variants
  /\ a \in {Tensor(kHalf, sh) : sh \in LargeRows \X LargeRed}
  /\ b \in {Tensor(kHalf, sh) : sh \in LargeRed \X LargeCols}
  /\ c \in {Tensor(kHalf, sh) : sh \in LargeRows \X LargeCols}
  /\ M = 0 /\ K = 0 /\ N = 0
  /\ grid = <<0, 0>>
  /\ dev_blocks = {}

\* A thread of a launched block computes its offsets: load_g_A_off and
\* load_g_B_off of reduction step k, and the offset of the store of fragment
\* <<i, j>> of its warp.  (The first and last block, thread, step, warp and
\* fragment: the offsets are monotone in each.)
ComputeOffsets ==
  /\ h_pc = "launched"
  /\ \E by \in {0, grid[2] - 1}, bx \in {0, grid[1] - 1}, tid \in {0, NUM_THREADS - 1},
        k \in {0, (K \div WMMA_SIZE_K) - 1}, w \in {0, (NUM_THREADS \div WARP_SIZE) - 1},
        ij \in {<<0, 0>>, <<WMMA_PER_WARP_M - 1, WMMA_PER_WARP_N - 1>>} :
        \E offA \in IntMulAdd(load_g_A_m(by, tid), K, load_g_A_k(tid, k)),
           offB \in IntMulAdd(load_g_B_k(tid, k), N, load_g_B_n(bx, tid)),
           offC \in IntMulAdd(store_g_C_m(by, w, ij[1]), N, store_g_C_n(bx, w, ij[2])) :
           g_off' = [set |-> TRUE,
                     A |-> [used |-> offA,
                            exact |-> WideMulAdd(load_g_A_m(by, tid), K, load_g_A_k(tid, k))],
                     B |-> [used |-> offB,
                            exact |-> WideMulAdd(load_g_B_k(tid, k), N, load_g_B_n(bx, tid))],
                     C |-> [used |-> offC,
                            exact |-> WideMulAdd(store_g_C_m(by, w, ij[1]), N, store_g_C_n(bx, w, ij[2]))]]
  /\ UNCHANGED <<tpl, build, writes_A, writes_B, hostVars, kernVars>>

OffsetNext ==
  \/ CheckDtypeA \/ CheckDtypeB \/ CheckDtypeC
  \/ ReadDims \/ CheckDiv
  \/ CheckShapeA \/ CheckShapeB \/ CheckShapeC
  \/ Launch \/ ComputeOffsets

SpecOffsets == OffsetInit /\ [][OffsetNext]_vars

------------------------------------------------------------------------------
(* The kernel templates over their template arguments.  The fragment shapes *)
(* are those WMMA has for half operands; the warp counts stay within        *)
(* __launch_bounds__(256).                                                  *)

FragmentShapes == {<<16, 16, 16>>, <<32, 8, 16>>, <<8, 32, 16>>}
Templates ==
  {[WMMA_SIZE_M |-> sh[1], WMMA_SIZE_N |-> sh[2], WMMA_SIZE_K |-> sh[3],
    WARPS_PER_BLOCK_M |-> wm, WARPS_PER_BLOCK_N |-> wn,
    WMMA_PER_WARP_M |-> fm, WMMA_PER_WARP_N |-> fn] :
     sh \in FragmentShapes, wm \in {2, 4}, wn \in {1, 2}, fm \in {1, 2}, fn \in {2, 4}}

\* constexpr int BM, BN, BK of the kernel; NUM_THREADS of the wrapper.
TplBM(t) == t.WMMA_SIZE_M * t.WMMA_PER_WARP_M * t.WARPS_PER_BLOCK_M
TplBN(t) == t.WMMA_SIZE_N * t.WMMA_PER_WARP_N * t.WARPS_PER_BLOCK_N
TplBK(t) == t.WMMA_SIZE_K
TplThreads(t) == t.WARPS_PER_BLOCK_M * t.WARPS_PER_BLOCK_N * WARP_SIZE

\* &s_A[..][load_s_A_m][load_s_A_k] and &s_B[..][load_s_B_k][load_s_B_n] of
\* thread tid, as element offsets into the slot.
TplDstA(t, pad, tid) == load_s_A_m(tid) * (TplBK(t) + pad) + load_s_A_k(tid)
TplDstB(t, pad, tid) == load_s_B_k(tid) * (TplBN(t) + pad) + load_s_B_n(tid)

ConfigInit ==
  /\ tpl \in Templates
  /\ build = "source"
  /\ writes_A = << >> /\ writes_B = << >>
  /\ g_off = NoOffsets
  /\ variant \in Variants
  /\ h_pc = "build"
  /\ a = Tensor(kHalf, << >>) /\ b = Tensor(kHalf, << >>) /\ c = Tensor(kHalf, << >>)
  /\ M = 0 /\ K = 0 /\ N = 0
  /\ grid = <<0, 0>>
  /\ dev_blocks = {}
  /\ KernIdle

\* The compiler instantiates the template: nothing in it tests its arguments.
Instantiate ==
  /\ build = "source"
  /\ build' = "built"
  /\ UNCHANGED <<tpl, writes_A, writes_B, g_off, hostVars, kernVars>>

\* A block of NUM_THREADS threads makes the staging writes of one slice: each
\* thread one 8-half transfer into s_A and one into s_B.
StageSlice ==
  /\ build = "built"
  /\ LET tids == 0 .. TplThreads(tpl) - 1
         pad == PadOf(variant)
     IN /\ writes_A' = [e \in {TplDstA(tpl, pad, tid) : tid \in tids} |->
                          Cardinality({tid \in tids : TplDstA(tpl, pad, tid) = e})]
        /\ writes_B' = [e \in {TplDstB(tpl, pad, tid) : tid \in tids} |->
                          Cardinality({tid \in tids : TplDstB(tpl, pad, tid) = e})]
  /\ build' = "staged"
  /\ UNCHANGED <<tpl, g_off, hostVars, kernVars>>

ConfigNext == Instantiate \/ StageSlice

SpecConfig == ConfigInit /\ [][ConfigNext]_vars

------------------------------------------------------------------------------
(* Properties *)

\* The reference product, tile by tile: the 16x16 tile of C at row m0, column
\* n0 is the sum over the K/16 slices of (tile of A at m0, 16s) * (tile of B
\* at 16s, n0), each named by the offset of its first element.
RefSum(m0, n0) ==
  [s \in 1 .. K \div WMMA_SIZE_K |->
     <<m0 * K + (s - 1) * WMMA_SIZE_K, (s - 1) * WMMA_SIZE_K * N + n0>>]

\* Two sums of the same products, in whatever order.
SameSum(x, y) ==
  /\ Len(x) = Len(y)
  /\ \A p \in {x[i] : i \in DOMAIN x} \cup {y[i] : i \in DOMAIN y} :
        Cardinality({i \in DOMAIN x : x[i] = p}) = Cardinality({i \in DOMAIN y : y[i] = p})

BlockTileRows == {b_y * BM + t * WMMA_SIZE_M : t \in 0 .. (BM \div WMMA_SIZE_M) - 1}
BlockTileCols == {b_x * BN + t * WMMA_SIZE_N : t \in 0 .. (BN \div WMMA_SIZE_N) - 1}

\* C1: when a block of either kernel has finished, every 16x16 tile of its
\* 128x128 region of C holds the product of A and B there: C[m][n] is the sum
\* over k of A[m][k] * B[k][n], for every accepted M, N, K.
C1_OutputIsProduct ==
  BlockDone =>
    \A m0 \in BlockTileRows, n0 \in BlockTileCols :
       /\ Cardinality({r \in C_mem : r.off = m0 * N + n0}) = 1
       /\ \A r \in C_mem :
             r.off = m0 * N + n0 => r.ld = N /\ SameSum(r.val, RefSum(m0, n0))

\* The preconditions of the wrappers, on the tensors as the caller passed
\* them: M = a.size(0), K = a.size(1), N = b.size(1) as 64-bit sizes.  (2^32 is
\* a multiple of 128 and of 16, so a size's remainder is that of its low word.)
SizeMultipleOf(sz, n) == sz.lo % n = 0
AllHalf == a.dtype = kHalf /\ b.dtype = kHalf /\ c.dtype = kHalf
DimsDivisible ==
  /\ HasDim(a, 0) /\ HasDim(a, 1) /\ HasDim(b, 1)
  /\ SizeMultipleOf(size(a, 0), 128)
  /\ SizeMultipleOf(size(b, 1), 128)
  /\ SizeMultipleOf(size(a, 1), 16)
ShapeB_KxN == b.shape = <<size(a, 1), size(b, 1)>>
ShapeC_MxN == c.shape = <<size(a, 0), size(b, 1)>>
Preconditions == AllHalf /\ DimsDivisible /\ ShapeB_KxN /\ ShapeC_MxN
HostErrors == {"error_dtype", "error_index", "error_div", "error_shape"}

\* C2: no kernel launch happens with a violated precondition (a, b or c not
\* half precision, M or N not a multiple of 128, K not a multiple of 16, b not
\* of shape KxN, c not of shape MxN), and when the wrapper raises an error no
\* block has taken a step on the device.
C2_RejectedBeforeLaunch ==
  /\ h_pc = "launched" => Preconditions
  /\ h_pc \in HostErrors => dev_blocks = {}

\* Every block of the grid has run its write-back.
AllStored == BlockDone /\ dev_blocks = Blocks(grid)

\* The 16x16 region a store_matrix_sync writes: rows RegionRow .. +15 and
\* columns RegionCol .. +15 of a row-major matrix of leading dimension r.ld.
RegionRow(r) == r.off \div r.ld
RegionCol(r) == r.off % r.ld

\* C3: with grid = (N/128, M/128) and 8 warps per block, the 16x16 store
\* regions of all (block, warp, i, j) are pairwise disjoint and their union is
\* the whole MxN matrix: each region is one of the aligned 16x16 tiles of C,
\* and every such tile is the region of exactly one store.
C3_EachElementStoredOnce ==
  AllStored =>
    /\ \A r \in C_mem :
          /\ r.ld = N
          /\ RegionRow(r) % WMMA_SIZE_M = 0 /\ RegionRow(r) + WMMA_SIZE_M <= M
          /\ RegionCol(r) % WMMA_SIZE_N = 0 /\ RegionCol(r) + WMMA_SIZE_N <= N
    /\ \A mt \in 0 .. (M \div WMMA_SIZE_M) - 1, nt \in 0 .. (N \div WMMA_SIZE_N) - 1 :
          Cardinality({r \in C_mem : RegionRow(r) = mt * WMMA_SIZE_M
                                     /\ RegionCol(r) = nt * WMMA_SIZE_N}) = 1

\* The whole grid of the largest launch has stored, one region per fragment.
C3_Witness ==
  /\ AllStored
  /\ Cardinality(dev_blocks) = MaxGridX * MaxGridY
  /\ Cardinality(C_mem) = MaxGridX * MaxGridY * Cardinality(Warps) * Cardinality(FragIdx)

\* C4: on identical A and B, for every accepted M, N, K, the asynchronous
\* kernel leaves the same C as the synchronous kernel did: every fragment of
\* every warp stores the same sequence of multiply-accumulate updates.
C4_AsyncSameAsSync ==
  (BlockDone /\ C_prev.variant = "sync" /\ variant = "async")
     => C_mem = C_prev.C_mem

\* C5: for fixed inputs the final C does not depend on the schedule: a second
\* invocation of the kernel, however its warps interleave, ends with the C of
\* the first.
C5_SameOnRepeat ==
  (BlockDone /\ C_prev.variant = variant)
     => C_mem = C_prev.C_mem

\* The slot a warp about to load fragments reads (curr_buf in the main loop,
\* last_buf in the drain) and the slice that slot is to hold.
Reading(w) == pc[w] \in {"compute", "drain"}
ReadSlot(w) == IF pc[w] = "compute" THEN curr_buf(idx_k[w]) ELSE last_buf(K)
ReadSlice(w) == IF pc[w] = "compute" THEN idx_k[w] - 1 ELSE (K \div WMMA_SIZE_K) - 1

\* C6: in the asynchronous kernel, when a warp loads fragments from slot s,
\* every warp of the block has issued, committed and waited on the copy that
\* populated s, no copy into s is outstanding, and a block-wide barrier was
\* passed after those waits.
C6_ReadAfterWaitAndBarrier ==
  \A w \in Warps :
     Reading(w) =>
       \A x \in Warps :
          /\ inflight[x].slot # ReadSlot(w)
          /\ waited[x][ReadSlot(w)].k = ReadSlice(w)
          /\ waited[x][ReadSlot(w)].gen >= 0
          /\ waited[x][ReadSlot(w)].gen < bar_gen

\* The slots with a copy issued by some warp and not yet waited for by it.
SlotsInFlight == {inflight[w].slot : w \in Warps} \ {NoCopy.slot}

\* C7: in the asynchronous kernel at most one staging slot has copies issued
\* and not yet confirmed complete by their issuers' wait.
C7_OneSlotInFlight == Cardinality(SlotsInFlight) <= 1

\* Two warps have copies outstanding during the second loop iteration (into
\* slot 0) while a third has already waited for its own.
C7_Witness ==
  \E w1, w2, w3 \in Warps :
     /\ w1 # w2
     /\ inflight[w1] = [slot |-> 0, k |-> 2]
     /\ inflight[w2] = [slot |-> 0, k |-> 2]
     /\ pc[w3] = "loop_bar" /\ idx_k[w3] = 2

\* C8: for K = 16 the asynchronous kernel copies slice 0 into slot 0 in its
\* prologue, runs no iteration of the main loop, makes exactly one
\* multiply-accumulate pass in the drain, reading slot 0, and leaves the C the
\* synchronous kernel left on the same tensors.
C8_SingleStep ==
  (K = WMMA_SIZE_K /\ variant = "async") =>
    /\ \A w \in Warps : pc[w] \notin {"issue", "compute", "loop_bar"}
    /\ \A w \in Warps :
          pc[w] # "entry" => waited[w][0].k = 0 /\ waited[w][1].k = -1
    /\ \A ch \in DOMAIN s_A[1] : ~IsData(s_A[1][ch])
    /\ \A ch \in DOMAIN s_B[1] : ~IsData(s_B[1][ch])
    /\ \A w \in Warps : pc[w] = "drain" => ReadSlot(w) = 0
    /\ \A w \in Warps : pc[w] = "done" => \A ij \in FragIdx : Len(frag_C[w][ij]) = 1
    /\ BlockDone => C_mem = C_prev.C_mem

\* An asynchronous invocation with K = 16 has finished after a synchronous
\* one, its C holding one product of data per tile.
C8_Witness ==
  /\ K = WMMA_SIZE_K /\ variant = "async" /\ C_prev.variant = "sync"
  /\ BlockDone
  /\ \A r \in C_mem : Len(r.val) = 1 /\ IsData(r.val[1][1]) /\ IsData(r.val[1][2])

\* Warp x has finished its writes of slice k into the staging buffer; it has
\* finished its fragment loads of step k.
WritesDone(x, k) ==
  idx_k[x] > k \/ (idx_k[x] = k /\ pc[x] \in {"bar1", "frag", "bar2"})
LoadsDone(x, k) ==
  /\ idx_k[x] > k \/ (idx_k[x] = k /\ pc[x] = "bar2")
  /\ \A ij \in FragIdx : Len(frag_C[x][ij]) >= k + 1

\* C10: in the synchronous kernel (a) no warp loads a fragment for step k
\* before every warp of the block has finished its step-k writes to the
\* staging buffer, and (b) no warp writes step k+1's data while a warp of the
\* block has not finished its step-k fragment loads.
C10_BarriersOrderSteps ==
  \A w \in Warps :
     /\ pc[w] = "frag" => \A x \in Warps : WritesDone(x, idx_k[w])
     /\ (pc[w] = "load_g" /\ idx_k[w] > 0) => \A x \in Warps : LoadsDone(x, idx_k[w] - 1)

\* One warp is about to write slice 2 into the staging buffer, another has
\* written its part already, and every warp has made its two earlier steps.
C10_Witness ==
  /\ variant = "sync"
  /\ \E w, x \in Warps :
        /\ pc[w] = "load_g" /\ idx_k[w] = 2
        /\ pc[x] = "bar1" /\ idx_k[x] = 2
  /\ \A x \in Warps : \A ij \in FragIdx : Len(frag_C[x][ij]) = 2

\* The 8-half transfers that make up a rows x cols slice held in rows of
\* length cols + pad, as the element offsets they start at.
SliceTransfers(rows, cols, pad) ==
  {r * (cols + pad) + 8 * h : r \in 0 .. rows - 1, h \in 0 .. (cols \div 8) - 1}
CoveredExactly(writes, slice) ==
  /\ DOMAIN writes = slice
  /\ \A e \in DOMAIN writes : writes[e] = 1

\* C9: whatever the template arguments, a kernel that was built and run has
\* its block's threads cover the BMxBK slice of A and the BKxBN slice of B
\* with whole 8-element transfers, none overlapping and none missing (a
\* configuration that cannot do so does not get past the build).
C9_CoveredOrRejected ==
  build = "staged" =>
    /\ CoveredExactly(writes_A, SliceTransfers(TplBM(tpl), TplBK(tpl), PadOf(variant)))
    /\ CoveredExactly(writes_B, SliceTransfers(TplBK(tpl), TplBN(tpl), PadOf(variant)))

\* The slot warp w reads, or has yet to read, for the compute step it is in:
\* curr_buf from the top of an iteration to its fragment loads, last_buf in
\* the drain.
HasToRead(w) == pc[w] \in {"issue", "compute", "drain"}
SlotToRead(w) == IF pc[w] = "drain" THEN last_buf(K) ELSE curr_buf(idx_k[w])

\* C11: in the asynchronous kernel the slot of any copy issued and not yet
\* completed differs from the slot any warp of the block is reading or has yet
\* to read for its current compute step (a prefetch of iteration idx_k never
\* lands in the slot a slower warp still reads for iteration idx_k - 1); and
\* while a warp has its prologue copy ahead of it no warp reads at all.
C11_WriteSlotIsNotReadSlot ==
  /\ \A x \in Warps, w \in Warps :
        (inflight[x] # NoCopy /\ HasToRead(w)) => inflight[x].slot # SlotToRead(w)
  /\ (\E x \in Warps : pc[x] = "entry") => \A w \in Warps : ~HasToRead(w)

\* In the second iteration one warp's prefetch into slot 0 is outstanding
\* while a slower warp has not yet read slot 1, and a third warp is through.
C11_Witness ==
  \E x, w, y \in Warps :
     /\ inflight[x] = [slot |-> 0, k |-> 2]
     /\ pc[w] = "issue" /\ idx_k[w] = 2 /\ SlotToRead(w) = 1
     /\ pc[y] = "loop_bar" /\ idx_k[y] = 2

\* The number of reduction steps, K / WMMA_SIZE_K, and the multiply-accumulate
\* passes warp w has made so far (the same for each of its accumulators).
Steps == K \div WMMA_SIZE_K
PassesMade(w, n) == \A ij \in FragIdx : Len(frag_C[w][ij]) = n

\* The fragments warp w would load from slot right now are the tiles of
\* K-slice s: rows of A at columns 16s.., rows 16s.. of B.
HoldsSlice(w, slot, s) ==
  /\ \A i \in 0 .. WMMA_PER_WARP_M - 1 :
        load_frag_A(w, slot, i) = store_g_C_m(b_y, w, i) * K + s * WMMA_SIZE_K
  /\ \A j \in 0 .. WMMA_PER_WARP_N - 1 :
        load_frag_B(w, slot, j) = s * WMMA_SIZE_K * N + store_g_C_n(b_x, w, j)

\* C12: in the asynchronous kernel every warp makes exactly K/16
\* multiply-accumulate passes; pass s = 0 .. K/16 - 1, in increasing order,
\* reads slot s mod 2, which holds K-slice s when it is read; the drain pass
\* is pass K/16 - 1 and reads last_buf, the slot of the warp's last completed
\* copy.
C12_PassPerSlice ==
  \A w \in Warps :
     /\ pc[w] = "compute" =>
           /\ PassesMade(w, idx_k[w] - 1)
           /\ ReadSlot(w) = (idx_k[w] - 1) % 2
           /\ HoldsSlice(w, ReadSlot(w), idx_k[w] - 1)
     /\ pc[w] = "drain" =>
           /\ PassesMade(w, Steps - 1)
           /\ ReadSlot(w) = (Steps - 1) % 2
           /\ HoldsSlice(w, ReadSlot(w), Steps - 1)
           /\ waited[w][ReadSlot(w)].k = Steps - 1
           /\ \A s \in DOMAIN waited[w] : waited[w][s].k <= waited[w][ReadSlot(w)].k
     /\ pc[w] = "done" =>
           \A ij \in FragIdx :
              frag_C[w][ij] = RefSum(store_g_C_m(b_y, w, ij[1]), store_g_C_n(b_x, w, ij[2]))

\* One more product was added to an accumulator: new is old with one term
\* appended.
Accumulated(old, new) ==
  /\ Len(new) = Len(old) + 1
  /\ SubSeq(new, 1, Len(old)) = old

\* C13: in both kernels a warp's accumulators are zeroed once, at kernel
\* entry before any multiply-accumulate, and from then on each step either
\* leaves an accumulator as it is or adds one product A_fragment * B_fragment
\* to it (in a reduction step or in the drain pass); nothing resets it between
\* steps, before the drain or before the write-back, which stores it as
\* accumulated.  (A warp is at kernel entry once per invocation.)
C13_ZeroedOnceThenAccumulated ==
  [][\A w \in Warps :
       /\ \A ij \in FragIdx :
             \/ frag_C'[w][ij] = frag_C[w][ij]
             \/ pc[w] = "entry" /\ frag_C'[w][ij] = << >>
             \/ /\ pc[w] \in {"frag", "compute", "drain"}
                /\ Accumulated(frag_C[w][ij], frag_C'[w][ij])
             \/ BlockDone /\ pc'[w] = "entry"
       /\ (pc'[w] = "entry" /\ pc[w] # "entry") => BlockDone
       /\ pc'[w] = "done" =>
             \A r \in C_mem' : r.by[3] = w => r.val = frag_C'[w][r.by[4]]
    ]_vars

\* Both invocations have run three reduction steps: every accumulator of the
\* asynchronous block went through two loop iterations and the drain, and
\* was stored with its three products.
C13_Witness ==
  /\ K = 3 * WMMA_SIZE_K /\ variant = "async" /\ C_prev.variant = "sync"
  /\ BlockDone
  /\ \A r \in C_mem : Len(r.val) = 3 /\ \A t \in 1 .. 3 : IsData(r.val[t][1]) /\ IsData(r.val[t][2])
  /\ \A r \in C_prev.C_mem : Len(r.val) = 3

\* The chunks of a slot that lie in the padding columns: columns BK .. BK+PAD-1
\* of a row of s_A, columns BN .. BN+PAD-1 of a row of s_B.
PadChunksA ==
  [v \in Kernels |-> {ch \in ChunksA(PadOf(v)) : (8 * ch) % (BK + PadOf(v)) >= BK}]
PadChunksB ==
  [v \in Kernels |-> {ch \in ChunksB(PadOf(v)) : (8 * ch) % (BN + PadOf(v)) >= BN}]

\* C14: in the asynchronous kernel, with PAD = 0 and with PAD = 8, no copy
\* has a padding column as its destination (the padding keeps what the
\* buffer held at launch), no fragment load reads a padding column, and the
\* kernel with PAD = 8 leaves the C the kernel with PAD = 0 left on the same
\* inputs.
C14_PadOnlyStride ==
  IsAsync(variant) =>
    /\ \A slot \in DOMAIN s_A : \A ch \in PadChunksA[variant] : s_A[slot][ch] \in GarbageVals
    /\ \A slot \in DOMAIN s_B : \A ch \in PadChunksB[variant] : s_B[slot][ch] \in GarbageVals
    /\ \A w \in Warps :
          /\ DOMAIN WritersA[variant, w] \cap PadChunksA[variant] = {}
          /\ DOMAIN WritersB[variant, w] \cap PadChunksB[variant] = {}
          /\ \A i \in 0 .. WMMA_PER_WARP_M - 1 :
                DOMAIN FragTilesA[variant, K, w, i] \cap PadChunksA[variant] = {}
          /\ \A j \in 0 .. WMMA_PER_WARP_N - 1 :
                DOMAIN FragTilesB[variant, N, w, j] \cap PadChunksB[variant] = {}
    /\ (BlockDone /\ C_prev.variant = "async_pad0" /\ variant = "async")
          => C_mem = C_prev.C_mem

\* The threads of a block, and for each chunk of a slot the number of threads
\* whose 8-element staging destination it is.
Threads == 0 .. NUM_THREADS - 1
ThreadsOnA ==
  [v \in Kernels |->
     [ch \in ChunksA(PadOf(v)) |->
        Cardinality({tid \in Threads :
           ChunkOf(ElemA(PadOf(v), load_s_A_m(tid), load_s_A_k(tid))) = ch})]]
ThreadsOnB ==
  [v \in Kernels |->
     [ch \in ChunksB(PadOf(v)) |->
        Cardinality({tid \in Threads :
           ChunkOf(ElemB(PadOf(v), load_s_B_k(tid), load_s_B_n(tid))) = ch})]]

\* The <<slot, slice>> every thread of the block has just finished writing:
\* all warps wait at the barrier after the staging writes of step idx_k
\* (synchronous kernel), or at the barrier after the wait for their copies of
\* slice idx_k (asynchronous kernel; slice 0 into slot 0 in the prologue).
SlicesStaged ==
  IF \A w \in Warps : pc[w] = "bar1"
    THEN {<<0, idx_k[w]>> : w \in Warps}
  ELSE IF \A w \in Warps : pc[w] \in {"pro_bar", "loop_bar"}
    THEN {<<next_buf(idx_k[w]), idx_k[w]>> : w \in Warps}
  ELSE {}

\* The 8-element groups of the BMxBK slice of A and of the BKxBN slice of B,
\* as <<row, group>>.
GroupsA == (0 .. BM - 1) \X (0 .. (BK \div 8) - 1)
GroupsB == (0 .. BK - 1) \X (0 .. (BN \div 8) - 1)

\* The chunks of a slot that hold the groups of a slice.
DataChunksA == [v \in Kernels |-> {ChunkOf(ElemA(PadOf(v), g[1], 8 * g[2])) : g \in GroupsA}]
DataChunksB == [v \in Kernels |-> {ChunkOf(ElemB(PadOf(v), g[1], 8 * g[2])) : g \in GroupsB}]

\* Reduction step k's slice of A and of B for a block, laid out in a slot:
\* chunk -> offset of the global elements that belong there.
SliceOfA ==
  [v \in Kernels, by \in BlockYs, Kd \in KernelK, k \in 0 .. MaxKSteps |->
     [ch \in DataChunksA[v] |->
        LET g == CHOOSE x \in GroupsA : ChunkOf(ElemA(PadOf(v), x[1], 8 * x[2])) = ch
        IN (by * BM + g[1]) * Kd + k * WMMA_SIZE_K + 8 * g[2]]]
SliceOfB ==
  [v \in Kernels, bx \in BlockXs, Nd \in KernelN, k \in 0 .. MaxKSteps |->
     [ch \in DataChunksB[v] |->
        LET g == CHOOSE x \in GroupsB : ChunkOf(ElemB(PadOf(v), x[1], 8 * x[2])) = ch
        IN (k * WMMA_SIZE_K + g[1]) * Nd + bx * BN + 8 * g[2]]]

\* Slot holds reduction step k's 128x16 slice of A and 16x128 slice of B of
\* block <<b_x, b_y>>, every 8-element group at its position.
SliceInPlace(slot, k) ==
  /\ \A ch \in DOMAIN SliceOfA[variant, b_y, K, k] :
        s_A[slot][ch] = SliceOfA[variant, b_y, K, k][ch]
  /\ \A ch \in DOMAIN SliceOfB[variant, b_x, N, k] :
        s_B[slot][ch] = SliceOfB[variant, b_x, N, k][ch]

\* The staging destinations of the threads of kernel v are aligned to 8
\* elements, and each 8-element group of the two slices is the destination of
\* exactly one thread, the padding of none.
DestinationsPartition ==
  [v \in Kernels |->
     /\ \A tid \in Threads :
           /\ ElemA(PadOf(v), load_s_A_m(tid), load_s_A_k(tid)) % 8 = 0
           /\ ElemB(PadOf(v), load_s_B_k(tid), load_s_B_n(tid)) % 8 = 0
     /\ \A ch \in ChunksA(PadOf(v)) :
           ThreadsOnA[v][ch] = IF ch \in DataChunksA[v] THEN 1 ELSE 0
     /\ \A ch \in ChunksB(PadOf(v)) :
           ThreadsOnB[v][ch] = IF ch \in DataChunksB[v] THEN 1 ELSE 0
     /\ Cardinality(DataChunksA[v]) = Cardinality(GroupsA)
     /\ Cardinality(DataChunksB[v]) = Cardinality(GroupsB)]

\* C15: with 256 threads and BM = BN = 128, BK = 16, the 8-element staging
\* destinations of the threads (s_A row tid/2, columns 0..7 or 8..15; s_B row
\* tid/16, columns (tid%16)*8 ..) are aligned, pairwise disjoint and cover the
\* 128x16 slice of A and the 16x128 slice of B: every element of a slice has
\* exactly one writing thread per step, and when all threads have made their
\* writes of reduction step k the slot holds, at each position, the element
\* of A or B of the block's slice k that belongs there.
C15_StagingWritesPartition ==
  /\ DestinationsPartition[variant]
  /\ \A sk \in SlicesStaged :
        (0 <= sk[2] /\ sk[2] < Steps) => SliceInPlace(sk[1], sk[2])

\* After a synchronous invocation, every warp of the asynchronous kernel has
\* waited for its copy of slice 2 into slot 0, which now holds that slice.
C15_Witness ==
  /\ variant = "async" /\ C_prev.variant = "sync"
  /\ SlicesStaged = {<<0, 2>>} /\ 2 < Steps
  /\ SliceInPlace(0, 2)

\* The block-wide barriers a thread of the running kernel is to arrive at.
ExpectedBarriers ==
  IF variant = "sync" THEN 2 * Steps
  ELSE 1 + (IF Steps - 1 > 0 THEN Steps - 1 ELSE 0)

\* C16: under a fair schedule, for every accepted K, the block of either
\* kernel terminates with every warp having made its write-back (so no
\* thread is left waiting at a barrier or at a copy wait), and a finished
\* block has passed 2*(K/16) barriers in the synchronous kernel and
\* 1 + max(K/16 - 1, 0) in the asynchronous one, each of them with all its
\* threads arrived.
C16_BarriersMatchAndTerminate ==
  /\ [](BlockDone => bar_gen = ExpectedBarriers)
  /\ <>BlockDone

\* The asynchronous block has terminated after its prologue barrier and the
\* barrier of its one loop iteration, every warp having stored its fragments.
C16_Witness ==
  /\ BlockDone /\ variant = "async"
  /\ Steps = 2 /\ bar_gen = 2
  /\ Cardinality({r.by : r \in C_mem}) = Cardinality(Warps) * Cardinality(FragIdx)

\* The chunks of its read slot warp w is about to load fragments from.
ChunksToRead(w) ==
  [A |-> UNION {DOMAIN FragTilesA[variant, K, w, i] : i \in 0 .. WMMA_PER_WARP_M - 1},
   B |-> UNION {DOMAIN FragTilesB[variant, N, w, j] : j \in 0 .. WMMA_PER_WARP_N - 1}]
LoadsFragments(w) == (variant = "sync" /\ pc[w] = "frag") \/ (IsAsync(variant) /\ Reading(w))
SlotLoaded(w) == IF variant = "sync" THEN 0 ELSE ReadSlot(w)

\* C17: for every accepted (M, N, K), zero sizes included, no 8-element read
\* of A or B by a staging write or copy, landed or in flight, lies outside
\* [0, M*K) or [0, K*N); every 16x16 fragment store lies within [0, M*N); and
\* every fragment load reads staging chunks that a write or copy has
\* populated.
C17_AccessesInBounds ==
  /\ \A slot \in DOMAIN s_A : \A ch \in DOMAIN s_A[slot] : s_A[slot][ch] # OutOfBounds
  /\ \A slot \in DOMAIN s_B : \A ch \in DOMAIN s_B[slot] : s_B[slot][ch] # OutOfBounds
  /\ \A w \in Warps :
        inflight[w] # NoCopy =>
          /\ \A ch \in DOMAIN StagedA[variant, b_y, M, K, w, inflight[w].k] :
                StagedA[variant, b_y, M, K, w, inflight[w].k][ch] # OutOfBounds
          /\ \A ch \in DOMAIN StagedB[variant, b_x, K, N, w, inflight[w].k] :
                StagedB[variant, b_x, K, N, w, inflight[w].k][ch] # OutOfBounds
  /\ \A r \in C_mem :
        0 <= r.off /\ r.off + (WMMA_SIZE_M - 1) * r.ld + WMMA_SIZE_N <= M * N
  /\ \A w \in Warps :
        LoadsFragments(w) =>
          /\ \A ch \in ChunksToRead(w).A : s_A[SlotLoaded(w)][ch] \notin GarbageVals
          /\ \A ch \in ChunksToRead(w).B : s_B[SlotLoaded(w)][ch] \notin GarbageVals

\* C18: for every (M, N, K) the wrapper accepts, M, N and K are the tensors'
\* 64-bit sizes (the narrowing to int lost nothing), and each offset a thread
\* computes in int arithmetic, load_g_A_m * K + load_g_A_k,
\* load_g_B_k * N + load_g_B_n and store_g_C_m * N + store_g_C_n, is the
\* mathematical value of that expression.
C18_OffsetsExact ==
  /\ h_pc = "launched" =>
        /\ size(a, 0) = Size(0, M)
        /\ size(a, 1) = Size(0, K)
        /\ size(b, 1) = Size(0, N)
  /\ g_off.set =>
        /\ g_off.A.used = g_off.A.exact
        /\ g_off.B.used = g_off.B.exact
        /\ g_off.C.used = g_off.C.exact

====
